---- MODULE Spec2Model ----
(***************************************************************************)
(* Model of client_mining_p/blockchain.py: the Blockchain object (chain,   *)
(* current_transactions), its methods new_block, hash, last_block and      *)
(* valid_proof, and the Flask handlers mine, full_chain and                *)
(* get_last_block.  app.run() serves every request on a thread of its own, *)
(* so a handler is a sequence of steps, one per access to the shared       *)
(* Blockchain object, and the steps of different handlers interleave.      *)
(*                                                                         *)
(* Text is modelled as a sequence of character codes (naturals): 0..15 are *)
(* the digit characters '0'..'9','a'..'f', the codes of Tok are JSON       *)
(* punctuation and the codes of KeyTok are the quoted key names.  SHA-256  *)
(* is modelled by a deterministic digest over such a sequence with a small *)
(* range (HashRange), printed as HexLen hexadecimal characters.            *)
(***************************************************************************)
EXTENDS Integers, Sequences, FiniteSets, TLC

(* ------------------------------ bounds -------------------------------- *)
\* number of request-serving threads that may run at the same time
NumThreads == 2
\* number of requests the model lets the server receive
MaxRequests == 2
\* time() returns a value in 0..MaxTime
MaxTime == 1
\* submitted proofs are drawn from 0..MaxProof
MaxProof == 2
\* number of distinct digests of the modelled SHA-256
HashRange == 64

(* --------------------------- program constants ------------------------ *)
\* guess_hash[:6] == '000000'
ZeroPrefixLen == 6
\* self.new_block(previous_hash=1, proof=100)
GenesisProof == 100
GenesisPreviousHash == 1

Threads == 1..NumThreads
Proofs == 0..MaxProof
Timestamps == 0..MaxTime
\* length of a printed digest: one character more than the checked prefix
HexLen == ZeroPrefixLen + 1

(* ------------------------------- text --------------------------------- *)
Tok == [quote |-> 16, lbracket |-> 17, rbracket |-> 18, comma |-> 19,
        lbrace |-> 20, rbrace |-> 21, colon |-> 22]

\* the quoted key names of a block, one code each; the codes follow the
\* lexicographic order of the names, which is the order sort_keys uses
KeyTok == [index |-> 31, previous_hash |-> 32, proof |-> 33,
           timestamp |-> 34, transactions |-> 35]

\* str(n) for a natural number: its decimal digits, most significant first
RECURSIVE Decimal(_)
Decimal(n) == IF n < 10 THEN <<n>> ELSE Decimal(n \div 10) \o <<n % 10>>

\* a number printed as exactly width hexadecimal characters
RECURSIVE Hex(_, _)
Hex(n, width) ==
    IF width = 0 THEN <<>> ELSE Hex(n \div 16, width - 1) \o <<n % 16>>

\* JSON values that previous_hash takes: the integer sentinel or a string
JsonInt(n) == [isStr |-> FALSE, chars |-> Decimal(n)]
JsonStr(s) == [isStr |-> TRUE, chars |-> s]

\* json.dumps of a scalar: a string is quoted, a number is not
DumpScalar(v) ==
    IF v.isStr THEN <<Tok.quote>> \o v.chars \o <<Tok.quote>> ELSE v.chars

\* json.dumps of a list of integers
RECURSIVE DumpItems(_)
DumpItems(xs) ==
    IF xs = <<>> THEN <<>>
    ELSE IF Len(xs) = 1 THEN Decimal(xs[1])
    ELSE Decimal(xs[1]) \o <<Tok.comma>> \o DumpItems(Tail(xs))

DumpList(xs) == <<Tok.lbracket>> \o DumpItems(xs) \o <<Tok.rbracket>>

\* json.dumps of the value a block holds under key k
DumpField(block, k) ==
    CASE k = "index" -> Decimal(block.index)
      [] k = "proof" -> Decimal(block.proof)
      [] k = "timestamp" -> Decimal(block.timestamp)
      [] k = "transactions" -> DumpList(block.transactions)
      [] k = "previous_hash" -> DumpScalar(block.previous_hash)

RECURSIVE DumpPairs(_, _)
DumpPairs(block, ks) ==
    IF ks = <<>> THEN <<>>
    ELSE <<KeyTok[ks[1]], Tok.colon>> \o DumpField(block, ks[1])
         \o (IF Len(ks) = 1 THEN <<>> ELSE <<Tok.comma>>)
         \o DumpPairs(block, Tail(ks))

\* sorted(keys): insertion sort on the lexicographic rank of the key names
RECURSIVE InsertKey(_, _)
InsertKey(k, ks) ==
    IF ks = <<>> THEN <<k>>
    ELSE IF KeyTok[k] <= KeyTok[ks[1]] THEN <<k>> \o ks
    ELSE <<ks[1]>> \o InsertKey(k, Tail(ks))

RECURSIVE SortKeys(_)
SortKeys(ks) == IF ks = <<>> THEN <<>> ELSE InsertKey(ks[1], SortKeys(Tail(ks)))

\* json.dumps(block, sort_keys=...): a dict is written in the insertion
\* order of its keys (block.keys) unless sort_keys is set
JsonDumps(block, sort_keys) ==
    <<Tok.lbrace>>
    \o DumpPairs(block, IF sort_keys THEN SortKeys(block.keys) ELSE block.keys)
    \o <<Tok.rbrace>>

(* ------------------------------ digest -------------------------------- *)
\* hashlib.sha256(bytes): a deterministic digest of the whole text
RECURSIVE Sha256From(_, _)
Sha256From(h, s) ==
    IF s = <<>> THEN h
    ELSE Sha256From(((h + s[1] + 1) * 37) % HashRange, Tail(s))

Sha256(s) == Sha256From(7, s)

\* .hexdigest()
HexDigest(s) == Hex(Sha256(s), HexLen)

\* Blockchain.hash(block): sha256 of json.dumps(block), keys as inserted
hash(block) == HexDigest(JsonDumps(block, FALSE))

\* valid_proof as its docstring has it: 3 leading zeroes
valid_proof_ThreeZeroes(block_string, proof) ==
    LET guess == block_string \o Decimal(proof)
        guess_hash == HexDigest(guess)
    IN  SubSeq(guess_hash, 1, 3) = [i \in 1..3 |-> 0]

\* Blockchain.valid_proof(block_string, proof)
valid_proof(block_string, proof) ==
    LET guess == block_string \o Decimal(proof)
        guess_hash == HexDigest(guess)
    IN  SubSeq(guess_hash, 1, ZeroPrefixLen) = [i \in 1..ZeroPrefixLen |-> 0]


(* ------------------------------- state -------------------------------- *)
VARIABLES
    chain,                 \* blockchain.chain
    current_transactions,  \* blockchain.current_transactions
    pc,                    \* pc[t]: the line of mine/new_block thread t is at
    values,                \* mine: values (<<>> while unset)
    submitted_proof,       \* mine: submitted_proof (<<p>> once set)
    last_block,            \* mine: last_block (<<b>> once set)
    previous_hash,         \* mine: previous_hash (<<h>> once set)
    block,                 \* new_block: block (<<b>> once built)
    response,              \* a handler's response (<<r>> once set)
    received               \* number of requests received so far

vars == <<chain, current_transactions, pc, values, submitted_proof,
          last_block, previous_hash, block, response, received>>

\* the locals of the part of mine that follows the request checks
locals == <<submitted_proof, last_block, previous_hash, block>>

\* the key order of the dict literal in new_block
BlockKeys == <<"index", "proof", "timestamp", "transactions", "previous_hash">>

\* new_block numbering blocks from 0: 'index': len(self.chain)
NewBlockDict_ZeroBased(len_chain, proof, now, transactions, prev) ==
    [keys |-> BlockKeys,
     index |-> len_chain,
     proof |-> proof,
     timestamp |-> now,
     transactions |-> transactions,
     previous_hash |-> prev]

\* new_block filing the proof as the block's transactions
NewBlockDict_ProofAsTransactions(len_chain, proof, now, transactions, prev) ==
    [keys |-> BlockKeys,
     index |-> len_chain + 1,
     proof |-> proof,
     timestamp |-> now,
     transactions |-> <<proof>>,
     previous_hash |-> prev]

\* the dict built by new_block, given what its expressions evaluate to
NewBlockDict(len_chain, proof, now, transactions, prev) ==
    [keys |-> BlockKeys,
     index |-> len_chain + 1,
     proof |-> proof,
     timestamp |-> now,
     transactions |-> transactions,
     previous_hash |-> prev]

\* last_block returning the first block: self.chain[0]
LastBlock_First(c) == c[1]

\* Blockchain.last_block: self.chain[-1]
LastBlock(c) == c[Len(c)]

\* the JSON bodies a /mine request can carry: an object holding any subset
\* of the keys proof and id
Bodies ==
    {[proof |-> p, id |-> 0] : p \in Proofs}
    \cup {[proof |-> p] : p \in Proofs}
    \cup {[id |-> 0], <<>>}

\* required = ['proof', 'id']
required == {"proof", "id"}

\* the check forgetting the submitter id: 'proof' in values
HasRequired_ProofOnly(v) == "proof" \in DOMAIN v

\* all(k in values for k in required)
HasRequired(v) == \A k \in required : k \in DOMAIN v

\* the three (body, status) pairs mine returns
NonJson == [status |-> 400, message |-> "Non-JSON response", block |-> <<>>]
MissingValues == [status |-> 400, message |-> "Missing values", block |-> <<>>]
Forged(b) == [status |-> 200, message |-> "New Block Forged", block |-> <<b>>]
Invalid ==
    [status |-> 200, message |-> "Proof invalid or already submitted",
     block |-> <<>>]

\* Blockchain.__init__ followed by module load: the chain holds the block
\* new_block(previous_hash=1, proof=100) built and no request is in progress
Init ==
    /\ \E now \in Timestamps :
         chain = <<NewBlockDict(0, GenesisProof, now, <<>>,
                                JsonInt(GenesisPreviousHash))>>
    /\ current_transactions = <<>>
    /\ pc = [t \in Threads |-> "idle"]
    /\ values = [t \in Threads |-> <<>>]
    /\ submitted_proof = [t \in Threads |-> <<>>]
    /\ last_block = [t \in Threads |-> <<>>]
    /\ previous_hash = [t \in Threads |-> <<>>]
    /\ block = [t \in Threads |-> <<>>]
    /\ response = [t \in Threads |-> <<>>]
    /\ received = 0

(* ------------------------------- mine --------------------------------- *)
\* mine, line 127: a request arrives on a free thread and get_json either
\* raises ValueError (400) or returns the body
MineGetJson(t) ==
    /\ pc[t] \in {"idle", "done"}
    /\ received < MaxRequests
    /\ received' = received + 1
    /\ submitted_proof' = [submitted_proof EXCEPT ![t] = <<>>]
    /\ last_block' = [last_block EXCEPT ![t] = <<>>]
    /\ \/ /\ pc' = [pc EXCEPT ![t] = "done"]
          /\ response' = [response EXCEPT ![t] = <<NonJson>>]
          /\ UNCHANGED values
       \/ \E body \in Bodies :
            /\ pc' = [pc EXCEPT ![t] = "required"]
            /\ values' = [values EXCEPT ![t] = body]
            /\ response' = [response EXCEPT ![t] = <<>>]
    /\ UNCHANGED <<chain, current_transactions, previous_hash, block>>

\* mine, lines 134-141: the required keys, then submitted_proof
MineCheckRequired(t) ==
    /\ pc[t] = "required"
    /\ IF HasRequired(values[t])
       THEN /\ submitted_proof' =
                 [submitted_proof EXCEPT ![t] = <<values[t].proof>>]
            /\ pc' = [pc EXCEPT ![t] = "last_block"]
            /\ UNCHANGED response
       ELSE /\ response' = [response EXCEPT ![t] = <<MissingValues>>]
            /\ pc' = [pc EXCEPT ![t] = "done"]
            /\ UNCHANGED submitted_proof
    /\ values' = [values EXCEPT ![t] = <<>>]
    /\ UNCHANGED <<chain, current_transactions, last_block, previous_hash,
                   block, received>>

\* mine, line 144: last_block = blockchain.last_block
MineLastBlock(t) ==
    /\ pc[t] = "last_block"
    /\ last_block' = [last_block EXCEPT ![t] = <<LastBlock(chain)>>]
    /\ pc' = [pc EXCEPT ![t] = "valid_proof"]
    /\ UNCHANGED <<chain, current_transactions, values, submitted_proof,
                   previous_hash, block, response, received>>

\* mine, line 145: last_block_string
LastBlockString(b) == JsonDumps(b, TRUE)

\* mine without the else branch: every proof goes on to be forged
MineValidProof_NoCheck(t) ==
    /\ pc[t] = "valid_proof"
    /\ pc' = [pc EXCEPT ![t] = "hash"]
    /\ UNCHANGED <<chain, current_transactions, values, locals, response,
                   received>>

\* mine, lines 145-147 and 160-166: the proof is checked against the block
\* read at line 144; an invalid one is answered at once
MineValidProof(t) ==
    /\ pc[t] = "valid_proof"
    /\ IF valid_proof(LastBlockString(last_block[t][1]), submitted_proof[t][1])
       THEN /\ pc' = [pc EXCEPT ![t] = "hash"]
            /\ UNCHANGED response
       ELSE /\ response' = [response EXCEPT ![t] = <<Invalid>>]
            /\ pc' = [pc EXCEPT ![t] = "done"]
    /\ UNCHANGED <<chain, current_transactions, values, locals, received>>

\* mine, line 150: previous_hash = blockchain.hash(blockchain.last_block)
MineHash(t) ==
    /\ pc[t] = "hash"
    /\ previous_hash' =
         [previous_hash EXCEPT ![t] = <<JsonStr(hash(LastBlock(chain)))>>]
    /\ pc' = [pc EXCEPT ![t] = "new_block"]
    /\ UNCHANGED <<chain, current_transactions, values, submitted_proof,
                   last_block, block, response, received>>

(* ----------------------------- new_block ------------------------------ *)
\* new_block, lines 34-40: the dict literal
NewBlockBuild(t) ==
    /\ pc[t] = "new_block"
    /\ \E now \in Timestamps :
         block' = [block EXCEPT ![t] =
                     <<NewBlockDict(Len(chain), submitted_proof[t][1], now,
                                    current_transactions,
                                    previous_hash[t][1])>>]
    /\ pc' = [pc EXCEPT ![t] = "reset"]
    /\ UNCHANGED <<chain, current_transactions, values, submitted_proof,
                   last_block, previous_hash, response, received>>

\* new_block, line 44: self.current_transactions = []
NewBlockReset(t) ==
    /\ pc[t] = "reset"
    /\ current_transactions' = <<>>
    /\ pc' = [pc EXCEPT ![t] = "append"]
    /\ UNCHANGED <<chain, values, locals, response, received>>

\* new_block storing the block over the last one: self.chain[-1] = block
NewBlockAppend_Overwrite(t) ==
    /\ pc[t] = "append"
    /\ chain' = [chain EXCEPT ![Len(chain)] = block[t][1]]
    /\ response' = [response EXCEPT ![t] = <<Forged(block[t][1])>>]
    /\ previous_hash' = [previous_hash EXCEPT ![t] = <<>>]
    /\ block' = [block EXCEPT ![t] = <<>>]
    /\ pc' = [pc EXCEPT ![t] = "done"]
    /\ UNCHANGED <<current_transactions, values, submitted_proof, last_block,
                   received>>

\* new_block, lines 47-49, and mine, lines 151-158: the block is appended
\* and returned, and mine answers with it
NewBlockAppend(t) ==
    /\ pc[t] = "append"
    /\ chain' = Append(chain, block[t][1])
    /\ response' = [response EXCEPT ![t] = <<Forged(block[t][1])>>]
    /\ previous_hash' = [previous_hash EXCEPT ![t] = <<>>]
    /\ block' = [block EXCEPT ![t] = <<>>]
    /\ pc' = [pc EXCEPT ![t] = "done"]
    /\ UNCHANGED <<current_transactions, values, submitted_proof, last_block,
                   received>>

(* ------------------------ full_chain, last_block --------------------- *)
\* full_chain, lines 171-175: the response dict.  Its 'chain' entry is the
\* list blockchain.chain itself, whose content is read when the dict is
\* serialized; its 'chain_length' entry is the length now
FullChainBuild(t) ==
    /\ pc[t] \in {"idle", "done"}
    /\ received < MaxRequests
    /\ received' = received + 1
    /\ submitted_proof' = [submitted_proof EXCEPT ![t] = <<>>]
    /\ last_block' = [last_block EXCEPT ![t] = <<>>]
    /\ response' = [response EXCEPT ![t] = <<[chain_length |-> Len(chain)]>>]
    /\ pc' = [pc EXCEPT ![t] = "full_chain_jsonify"]
    /\ UNCHANGED <<chain, current_transactions, values, previous_hash, block>>

\* full_chain, line 176: jsonify(response), 200
FullChainJsonify(t) ==
    /\ pc[t] = "full_chain_jsonify"
    /\ response' = [response EXCEPT ![t] =
                      <<[status |-> 200, chain |-> chain,
                         chain_length |-> response[t][1].chain_length]>>]
    /\ pc' = [pc EXCEPT ![t] = "done"]
    /\ UNCHANGED <<chain, current_transactions, values, locals, received>>

\* get_last_block, lines 180-182: the response dict holds the block that
\* blockchain.last_block returns
GetLastBlockBuild(t) ==
    /\ pc[t] \in {"idle", "done"}
    /\ received < MaxRequests
    /\ received' = received + 1
    /\ submitted_proof' = [submitted_proof EXCEPT ![t] = <<>>]
    /\ last_block' = [last_block EXCEPT ![t] = <<>>]
    /\ response' = [response EXCEPT ![t] = <<[last_block |-> LastBlock(chain)]>>]
    /\ pc' = [pc EXCEPT ![t] = "last_block_jsonify"]
    /\ UNCHANGED <<chain, current_transactions, values, previous_hash, block>>

\* get_last_block, line 183: jsonify(response), 200
GetLastBlockJsonify(t) ==
    /\ pc[t] = "last_block_jsonify"
    /\ response' = [response EXCEPT ![t] =
                      <<[status |-> 200,
                         last_block |-> response[t][1].last_block]>>]
    /\ pc' = [pc EXCEPT ![t] = "done"]
    /\ UNCHANGED <<chain, current_transactions, values, locals, received>>

Next ==
    \E t \in Threads :
        \/ FullChainBuild(t)
        \/ FullChainJsonify(t)
        \/ GetLastBlockBuild(t)
        \/ GetLastBlockJsonify(t)
        \/ MineGetJson(t)
        \/ MineCheckRequired(t)
        \/ MineLastBlock(t)
        \/ MineValidProof(t)
        \/ MineHash(t)
        \/ NewBlockBuild(t)
        \/ NewBlockReset(t)
        \/ NewBlockAppend(t)

Spec == Init /\ [][Next]_vars

(* ------------------------------ claims -------------------------------- *)
\* thread t takes a step of its handler
Steps(t) == pc'[t] # pc[t]

\* thread t's request has been answered with r
Answered(t, r) == pc[t] = "done" /\ response[t] = <<r>>

\* r is the answer of an accepted mining attempt
IsForged(r) == "message" \in DOMAIN r /\ r.message = "New Block Forged"

\* thread t's request has been answered with a forged block
Accepted(t) ==
    /\ pc[t] = "done"
    /\ response[t] # <<>>
    /\ IsForged(response[t][1])

\* thread t is inside a mining attempt
InAttempt(t) ==
    pc[t] \in {"required", "last_block", "valid_proof", "hash", "new_block",
               "reset", "append"}

\* C1: every block after the first holds, as previous_hash, the hash of the
\* block right before it in the chain
C1_Linkage ==
    \A i \in 2..Len(chain) :
        chain[i].previous_hash = JsonStr(hash(chain[i - 1]))

\* C2: the block at position i (counting from 1) has index i
C2_IndexIsPosition == \A i \in 1..Len(chain) : chain[i].index = i

\* C3: of two attempts that carried the same valid proof and read the same
\* last block, one was accepted and the other rejected, and the chain holds
\* one block forged with that proof on that last block
C3_ExactlyOneAccepted ==
    \A t, u \in Threads :
        ( /\ t # u
          /\ pc[t] = "done" /\ pc[u] = "done"
          /\ last_block[t] # <<>>
          /\ last_block[t] = last_block[u]
          /\ submitted_proof[t] = submitted_proof[u]
          /\ valid_proof(LastBlockString(last_block[t][1]),
                         submitted_proof[t][1]) )
        => /\ \/ Accepted(t) /\ Answered(u, Invalid)
              \/ Accepted(u) /\ Answered(t, Invalid)
           /\ Cardinality({i \in 1..Len(chain) :
                  /\ chain[i].proof = submitted_proof[t][1]
                  /\ chain[i].previous_hash =
                       JsonStr(hash(last_block[t][1]))}) = 1

\* C4: every step leaves the chain it found as a prefix of the chain it
\* leaves: no block is removed, reordered or changed
C4_AppendOnly ==
    [][/\ Len(chain) <= Len(chain')
       /\ SubSeq(chain', 1, Len(chain)) = chain]_vars

C4_Witness == Len(chain) >= 3

\* C5: the proof of every block after the first is valid against the
\* sorted-key string of the block right before it in the chain
C5_ProofsValid ==
    \A i \in 2..Len(chain) :
        valid_proof(LastBlockString(chain[i - 1]), chain[i].proof)

\* C6: an attempt whose proof is valid goes on to be forged, and the step
\* that appends its block adds one block, with index the old length plus one,
\* the submitted proof and the hash of the old last block, and answers with
\* the new last block
C6_AcceptedAppend ==
    [][\A t \in Threads :
        /\ ( /\ pc[t] = "valid_proof" /\ Steps(t)
             /\ valid_proof(LastBlockString(last_block[t][1]),
                            submitted_proof[t][1]) )
           => pc'[t] = "hash"
        /\ (pc[t] = "append" /\ Steps(t))
           => LET b == LastBlock(chain')
              IN  /\ chain' = Append(chain, b)
                  /\ b.index = Len(chain) + 1
                  /\ b.proof = submitted_proof[t][1]
                  /\ b.previous_hash = JsonStr(hash(LastBlock(chain)))
                  /\ response'[t] = <<Forged(b)>>
                  /\ pc'[t] = "done"]_vars

\* C7: an attempt whose proof fails against the last block it read is
\* answered "Proof invalid" with status 200, and no step of the attempt up to
\* that answer changes the chain or the pending transactions
C7_RejectedLeavesState ==
    [][\A t \in Threads :
        /\ ( /\ pc[t] = "valid_proof" /\ Steps(t)
             /\ ~valid_proof(LastBlockString(last_block[t][1]),
                             submitted_proof[t][1]) )
           => /\ pc'[t] = "done"
              /\ response'[t] = <<Invalid>>
              /\ response'[t][1].status = 200
        /\ ( /\ pc[t] \in {"idle", "done", "required", "last_block",
                           "valid_proof"}
             /\ Steps(t) )
           => UNCHANGED <<chain, current_transactions>>]_vars

C7_Witness ==
    \E t \in Threads :
        /\ Answered(t, Invalid)
        /\ ~valid_proof(LastBlockString(last_block[t][1]),
                        submitted_proof[t][1])

\* C8: a request whose body lacks proof or id is answered "Missing values"
\* with status 400 by the step that checks it, which leaves the chain and
\* the pending transactions alone, as did the step that read the request
C8_MalformedLeavesState ==
    [][\A t \in Threads :
        /\ ( /\ pc[t] = "required" /\ Steps(t)
             /\ ~({"proof", "id"} \subseteq DOMAIN values[t]) )
           => /\ pc'[t] = "done"
              /\ response'[t] = <<MissingValues>>
              /\ response'[t][1].status = 400
              /\ submitted_proof'[t] = <<>>
              /\ UNCHANGED <<chain, current_transactions>>
        /\ (pc[t] \in {"idle", "done"} /\ Steps(t))
           => UNCHANGED <<chain, current_transactions>>]_vars

C8_Witness ==
    \E t \in Threads :
        /\ Answered(t, MissingValues)
        /\ Len(chain) >= 2

\* C9: before any request arrives the chain is one block with index 1,
\* previous_hash the integer 1, proof 100 and no transactions, and there are
\* no pending transactions
C9_Genesis ==
    received = 0 =>
        /\ Len(chain) = 1
        /\ chain[1].index = 1
        /\ chain[1].previous_hash = [isStr |-> FALSE, chars |-> <<1>>]
        /\ chain[1].proof = 100
        /\ chain[1].transactions = <<>>
        /\ current_transactions = <<>>

C9_Witness == received = 0 /\ Len(chain) = 1 /\ chain[1].proof = 100

\* C10: the block new_block builds holds the pending transactions found at
\* the call, it is that block which is appended, and once it is appended
\* there are no pending transactions
C10_BufferTransfer ==
    [][\A t \in Threads :
        /\ (pc[t] = "new_block" /\ Steps(t))
           => block'[t][1].transactions = current_transactions
        /\ (pc[t] = "reset" /\ Steps(t)) => block'[t] = block[t]
        /\ (pc[t] = "append" /\ Steps(t))
           => /\ LastBlock(chain') = block[t][1]
              /\ current_transactions' = <<>>]_vars

C10_Witness ==
    \E t \in Threads :
        /\ Accepted(t)
        /\ response[t][1].block = <<LastBlock(chain)>>
        /\ LastBlock(chain).transactions = <<>>
        /\ current_transactions = <<>>

\* C11: while a new_block call has reset the pending transactions and not
\* yet appended its block, no other thread takes a step that reads the chain
\* or the pending transactions, and no two new_block calls have both built
\* their block from the pending transactions before either has reset them
C11_AtomicResetAppend ==
    [][\A t, u \in Threads :
        t # u =>
          /\ (pc[t] = "append" /\ Steps(u))
             => pc[u] \notin {"last_block", "hash", "new_block"}
          /\ ~(pc[t] = "reset" /\ pc[u] = "reset")]_vars

\* the orders in which the five keys of a block can have been inserted
KeyOrders ==
    {ks \in [1..Len(BlockKeys) -> {BlockKeys[i] : i \in 1..Len(BlockKeys)}] :
        \A i, j \in 1..Len(BlockKeys) : ks[i] = ks[j] => i = j}

\* C13: a block of the chain hashes to the same digest whatever the order
\* in which its five keys were inserted
C13_HashIgnoresKeyOrder ==
    \A i \in 1..Len(chain) :
        \A ks \in KeyOrders :
            hash([chain[i] EXCEPT !.keys = ks]) = hash(chain[i])

\* C15: while a thread is inside a mining attempt no other thread takes a
\* step, an attempt ends with one of the three outcomes, and the chain grows
\* by one block exactly in the step that ends an attempt as accepted
C15_AttemptAtomic ==
    [][/\ \A t, u \in Threads : (t # u /\ InAttempt(t)) => ~Steps(u)
       /\ \A t \in Threads :
            (InAttempt(t) /\ Steps(t) /\ pc'[t] = "done")
            => \/ response'[t] \in {<<NonJson>>, <<MissingValues>>, <<Invalid>>}
               \/ IsForged(response'[t][1])
       /\ (Len(chain') = Len(chain) + 1)
          <=> \E t \in Threads :
                /\ InAttempt(t) /\ Steps(t) /\ pc'[t] = "done"
                /\ IsForged(response'[t][1])
       /\ Len(chain') \in {Len(chain), Len(chain) + 1}]_vars

\* C16: when an attempt appends its block, the previous_hash it stored is
\* the hash of the block its proof was checked against, and that block is
\* still the last block of the chain
C16_SameBlockThroughout ==
    [][\A t \in Threads :
        (pc[t] = "append" /\ Steps(t))
        => /\ block[t][1].previous_hash = JsonStr(hash(last_block[t][1]))
           /\ LastBlock(chain) = last_block[t][1]]_vars

C19_NoTransactions ==
    /\ current_transactions = <<>>
    /\ \A i \in 1..Len(chain) : chain[i].transactions = <<>>

C19_Witness ==
    /\ Len(chain) >= 2
    /\ received = MaxRequests
    /\ \A t \in Threads : pc[t] \in {"idle", "done"}
    /\ \A i \in 1..Len(chain) : chain[i].transactions = <<>>

\* C12: a served chain listing reports as its length the number of blocks
\* it lists, and the blocks it lists are a chain the program has held
C12_ConsistentSnapshot ==
    \A t \in Threads :
        ( /\ pc[t] = "done"
          /\ response[t] # <<>>
          /\ "chain" \in DOMAIN response[t][1] )
        => LET r == response[t][1]
           IN  /\ r.chain_length = Len(r.chain)
               /\ Len(r.chain) >= 1
               /\ Len(r.chain) <= Len(chain)
               /\ r.chain = SubSeq(chain, 1, Len(r.chain))

\* C17: the chain is never empty, and get_last_block answers with the block
\* at the last position of the chain as it reads it, neither of its steps
\* changing the chain or the pending transactions
C17_LastBlock ==
    [][/\ Len(chain) >= 1 /\ Len(chain') >= 1
       /\ \A t \in Threads :
            /\ (pc'[t] = "last_block_jsonify" /\ Steps(t))
               => /\ response'[t][1].last_block = chain[Len(chain)]
                  /\ UNCHANGED <<chain, current_transactions>>
            /\ (pc[t] = "last_block_jsonify" /\ Steps(t))
               => /\ response'[t][1].last_block = response[t][1].last_block
                  /\ response'[t][1].status = 200
                  /\ pc'[t] = "done"
                  /\ UNCHANGED <<chain, current_transactions>>]_vars

C17_Witness ==
    \E t \in Threads :
        /\ pc[t] = "done"
        /\ response[t] # <<>>
        /\ "last_block" \in DOMAIN response[t][1]
        /\ response[t][1].last_block.index >= 2
        /\ response[t][1].last_block = LastBlock(chain)

====
